---- MODULE Spec2Model ----
(***************************************************************************)
(* Model of nireports.assembler.reportlet.Reportlet: the construction of   *)
(* a reportlet from a configuration mapping, a catalog (BIDS layout) and   *)
(* an output directory.                                                    *)
(*                                                                         *)
(* Representation                                                          *)
(*   - a string is a TLA+ string; a text that the code inspects character  *)
(*     by character (a file's text) is a sequence of one-character strings *)
(*   - a path is a sequence of components; a component is the sequence of  *)
(*     its dot-separated segments (<<"x", "svg">> is "x.svg")              *)
(*   - a mapping (dict) is a function whose domain is its key set          *)
(*   - a format template is a sequence of tokens, literal text or a        *)
(*     replacement field                                                   *)
(*   - Python's None is the string NoneVal; an attribute that was never    *)
(*     assigned is the string Unset                                        *)
(***************************************************************************)
EXTENDS Naturals, Sequences, FiniteSets, TLC

VARIABLES
    config,       \* the config argument: [isNone, items]
    layout,       \* the catalog: [root, result]
    out_dir,      \* the out_dir argument (a path)
    pc,           \* "start", "loop", "done" or "raised"
    err,          \* the exception that left __init__, or NoneVal
    title, subtitle, description, name, components,   \* self.*
    idx,          \* position of the for loop in files (1-based)
    fs,           \* the file system: path -> text of every regular file
    dirs,         \* the file system: the directories that exist
    reads,        \* paths whose text this construction has read
    lookups       \* number of layout.get calls made

vars == <<config, layout, out_dir, pc, err, title, subtitle, description,
          name, components, idx, fs, dirs, reads, lookups>>

-----------------------------------------------------------------------------
(* Bounds of the exploration *)

MaxFiles == 3      \* longest catalog result
MaxQuery == 2      \* most criteria in a query

-----------------------------------------------------------------------------
(* Python values *)

NoneVal == "<None>"
Unset == "<unset>"

EmptyMap == [k \in {} |-> k]

\* dict.get(key, default)
Get(d, k, default) == IF k \in DOMAIN d THEN d[k] ELSE default

RECURSIVE Join(_, _)
\* sep.join(parts)
Join(parts, sep) ==
    IF Len(parts) = 0 THEN ""
    ELSE IF Len(parts) = 1 THEN parts[1]
    ELSE parts[1] \o sep \o Join(Tail(parts), sep)

-----------------------------------------------------------------------------
(* str.format *)

Lit(s) == [kind |-> "lit", text |-> s]
Field(f) == [kind |-> "field", text |-> f]

\* the template as the string it is written as
Raw(tmpl) ==
    Join([i \in DOMAIN tmpl |->
            IF tmpl[i].kind = "field" THEN "{" \o tmpl[i].text \o "}"
            ELSE tmpl[i].text], "")

\* format raises (KeyError / IndexError) when a field has no argument
CanFormat(tmpl, args) ==
    \A i \in DOMAIN tmpl : tmpl[i].kind = "field" => tmpl[i].text \in DOMAIN args

Format(tmpl, args) ==
    Join([i \in DOMAIN tmpl |->
            IF tmpl[i].kind = "field" THEN args[tmpl[i].text]
            ELSE tmpl[i].text], "")

-----------------------------------------------------------------------------
(* pathlib *)

IsUnder(p, base) ==
    /\ Len(base) <= Len(p)
    /\ SubSeq(p, 1, Len(base)) = base

\* p.relative_to(base); raises ValueError unless IsUnder(p, base)
RelativeTo(p, base) == SubSeq(p, Len(base) + 1, Len(p))

Parent(p) == SubSeq(p, 1, Len(p) - 1)

\* p.suffixes: one suffix per dot of the final component
Suffixes(p) ==
    LET nm == p[Len(p)]
    IN  [i \in 1 .. (Len(nm) - 1) |-> "." \o nm[i + 1]]

\* str(p)
Posix(p) == Join([i \in DOMAIN p |-> Join(p[i], ".")], "/")

\* the directories mkdir(parents=True) makes sure exist for directory d
Ancestors(d) == { SubSeq(d, 1, n) : n \in 1 .. Len(d) }

-----------------------------------------------------------------------------
(* str.strip *)

Whitespace == {" ", "\n", "\t"}

RECURSIVE LStrip(_)
LStrip(t) ==
    IF Len(t) > 0 /\ t[1] \in Whitespace THEN LStrip(Tail(t)) ELSE t

RECURSIVE RStrip(_)
RStrip(t) ==
    IF Len(t) > 0 /\ t[Len(t)] \in Whitespace
    THEN RStrip(SubSeq(t, 1, Len(t) - 1)) ELSE t

StripLeft(t) == LStrip(t)

\* str.strip()
Strip(t) == RStrip(LStrip(t))

-----------------------------------------------------------------------------
(* sorted(): the order of Python strings on the query keys in use *)

KeyOrder == <<"datatype", "desc", "space">>

StrLess(a, b) ==
    \E i, j \in DOMAIN KeyOrder : KeyOrder[i] = a /\ KeyOrder[j] = b /\ i < j

\* tuples compare by their first element that differs; the keys of a
\* mapping are distinct, so two items never compare on their values
ItemLess(x, y) == StrLess(x[1], y[1])

RECURSIVE Insert(_, _)
Insert(x, s) ==
    IF Len(s) = 0 THEN <<x>>
    ELSE IF ItemLess(x, s[1]) THEN <<x>> \o s
    ELSE <<s[1]>> \o Insert(x, Tail(s))

RECURSIVE Sorted(_)
Sorted(s) == IF Len(s) = 0 THEN <<>> ELSE Insert(s[1], Sorted(Tail(s)))

UnsortedItems(q) == q

\* sorted(bidsquery.items())
SortedItems(q) == Sorted(q)

\* "_".join("%s-%s" % i for i in sorted(bidsquery.items()))
DerivedName(q) ==
    LET items == SortedItems(q)
    IN  Join([i \in DOMAIN items |-> items[i][1] \o "-" \o items[i][2]], "_")

-----------------------------------------------------------------------------
(* nireports.assembler.misc.SVG_SNIPPET: a list of two templates, indexed by *)
(* the static flag (False is 0, True is 1)                                   *)

SVG_SNIPPET ==
    << <<Lit("<object data=\"./"), Field("0"), Lit("\"></object>")>>,
       <<Lit("<img src=\"./"), Field("0"), Lit("\" />")>> >>

SnippetFor(static) == IF static THEN SVG_SNIPPET[2] ELSE SVG_SNIPPET[1]

-----------------------------------------------------------------------------
(* The catalog and the file system the construction starts from *)

Root == << <<"work">>, <<"reportlets">> >>

Fig(nm) == Root \o << <<"figures">>, nm >>

Entry(nm, ents) == [path |-> Fig(nm), entities |-> ents]

Catalog ==
    { Entry(<<"summary", "html">>, "desc" :> "summary"),
      Entry(<<"space-A_T1w", "html">>, "space" :> "A"),
      Entry(<<"blank", "html">>, "desc" :> "blank"),
      Entry(<<"space-A_T1w", "svg">>, "space" :> "A"),
      Entry(<<"reconall_T1w", "svg">>, "desc" :> "reconall"),
      Entry(<<"notes", "txt">>, "desc" :> "notes"),
      Entry(<<"res-1", "5_T1w", "svg">>, "space" :> "A"),
      Entry(<<"summary", "en", "html">>, "space" :> "B") }

InitialFS ==
    Fig(<<"summary", "html">>) :> <<" ", "<", "p", ">", "\n">>
    @@ Fig(<<"space-A_T1w", "html">>) :> <<"a", " ", "b", " ">>
    @@ Fig(<<"blank", "html">>) :> <<" ", "\n">>
    @@ Fig(<<"space-A_T1w", "svg">>) :> <<"A">>
    @@ Fig(<<"reconall_T1w", "svg">>) :> <<"R">>
    @@ Fig(<<"notes", "txt">>) :> <<"n">>
    @@ Fig(<<"res-1", "5_T1w", "svg">>) :> <<"r">>
    @@ Fig(<<"summary", "en", "html">>) :> <<"e", "\n">>

InitialDirs == Ancestors(Fig(<<>>)) \ {Fig(<<>>)}

\* the output directory: apart from the catalog, its parent, or its root
OutDirs == { << <<"out">>, <<"fmriprep">> >>, Parent(Root), Root }

RECURSIVE DistinctSeqs(_, _)
\* the sequences of at most n distinct elements of S
DistinctSeqs(S, n) ==
    IF n = 0 THEN {<<>>}
    ELSE LET shorter == DistinctSeqs(S, n - 1)
         IN  shorter \cup
             UNION { { Append(s, x) : x \in S \ { s[i] : i \in DOMAIN s } } :
                     s \in shorter }

\* what layout.get may return: catalog entries in any order
Results(n) == DistinctSeqs(Catalog, n)

-----------------------------------------------------------------------------
(* The configurations explored *)

QueryValue == [datatype |-> "figures", desc |-> "reconall", space |-> ".*"]

\* a query: criteria in the order they were submitted
Queries ==
    { [i \in DOMAIN ks |-> <<ks[i], QueryValue[ks[i]]>>] :
        ks \in DistinctSeqs({"datatype", "desc", "space"}, MaxQuery) }

CaptionTemplate == <<Lit("Space "), Field("space")>>

\* an optional key: <<>> when the key is absent, <<v>> when it maps to v
Maybe(S) == {<<>>} \cup { <<v>> : v \in S }

Item(k, o) == IF Len(o) = 0 THEN EmptyMap ELSE (k :> o[1])

MkConfig(t, s, d, b, c, st, n) ==
    [isNone |-> FALSE,
     items |-> Item("title", t) @@ Item("subtitle", s) @@ Item("description", d)
               @@ Item("bids", b) @@ Item("caption", c) @@ Item("static", st)
               @@ Item("name", n)]

NoConfig == [isNone |-> TRUE, items |-> EmptyMap]

-----------------------------------------------------------------------------
(* Initial states: the arguments of Reportlet(layout, out_dir, config) and  *)
(* the file system before the call.  Every combination of configuration     *)
(* keys is explored against catalog results of at most one entry, and the   *)
(* configurations that carry a title, a description and one fixed query,    *)
(* with and without a caption, static and dynamic, are explored against     *)
(* every catalog result of at most MaxFiles entries.                        *)

AnyConfigs ==
    {NoConfig} \cup
    { MkConfig(t, s, d, b, c, st, n) :
        t \in Maybe({"Some Title"}), s \in Maybe({"Some Subtitle"}),
        d \in Maybe({"Some description"}), b \in Maybe({<<>>} \cup Queries),
        c \in Maybe({CaptionTemplate}), st \in Maybe(BOOLEAN),
        n \in Maybe({"custom-name"}) }

BuildConfigs ==
    { MkConfig(<<"Some Title">>, <<>>, <<"Some description">>,
               << <<(<<"desc", "reconall">>), (<<"datatype", "figures">>)>> >>,
               c, st, <<>>) :
        c \in Maybe({CaptionTemplate}), st \in Maybe({FALSE}) }

Start(c, r, o) ==
    /\ config = c
    /\ layout = [root |-> Root, result |-> r]
    /\ out_dir = o
    /\ pc = "start"
    /\ err = NoneVal
    /\ title = Unset /\ subtitle = Unset /\ description = Unset
    /\ name = Unset
    /\ components = <<>>
    /\ idx = 1
    /\ fs = InitialFS
    /\ dirs = InitialDirs
    /\ reads = {}
    /\ lookups = 0

Init ==
    \/ \E c \in AnyConfigs, r \in Results(1), o \in OutDirs : Start(c, r, o)
    \/ \E c \in BuildConfigs, r \in Results(MaxFiles), o \in OutDirs : Start(c, r, o)

-----------------------------------------------------------------------------
(* Reportlet.__init__ *)

RaiseUnlessQueried(c) == c.isNone \/ "bids" \notin DOMAIN c.items

\* `not config`: None and the empty mapping are both false
NotConfig(c) == c.isNone \/ DOMAIN c.items = {}

Items == config.items

\* config.get("bids", {})
bidsquery == Get(Items, "bids", <<>>)

\* an exception leaves __init__: nothing catches it
RaiseAndGoOn(e) == err' = e /\ pc' = pc

Raise(e) == err' = e /\ pc' = "raised"

\* lines 110-113
CopyMetadata ==
    /\ title' = Get(Items, "title", NoneVal)
    /\ subtitle' = Get(Items, "subtitle", NoneVal)
    /\ description' = Get(Items, "description", NoneVal)
    /\ components' = <<>>

RaiseNoConfig ==
    /\ pc = "start"
    /\ NotConfig(config)
    /\ Raise("RuntimeError")
    /\ UNCHANGED <<config, layout, out_dir, title, subtitle, description, name,
                   components, idx, fs, dirs, reads, lookups>>

\* no query criteria: the body of the `if bidsquery` is skipped
BeginNonBids ==
    /\ pc = "start"
    /\ ~NotConfig(config)
    /\ Len(bidsquery) = 0
    /\ CopyMetadata
    /\ pc' = "done"
    /\ UNCHANGED <<config, layout, out_dir, err, name, idx, fs, dirs, reads, lookups>>

\* the name is assigned, then layout.get(**bidsquery) returns the files
BeginBids ==
    /\ pc = "start"
    /\ ~NotConfig(config)
    /\ Len(bidsquery) > 0
    /\ CopyMetadata
    /\ name' = Get(Items, "name", DerivedName(bidsquery))
    /\ lookups' = lookups + 1
    /\ pc' = "loop"
    /\ idx' = 1
    /\ UNCHANGED <<config, layout, out_dir, err, fs, dirs, reads>>

\* the name is assigned, then layout.get(**bidsquery) raises
BeginBidsLookupFails ==
    /\ pc = "start"
    /\ ~NotConfig(config)
    /\ Len(bidsquery) > 0
    /\ CopyMetadata
    /\ name' = Get(Items, "name", DerivedName(bidsquery))
    /\ lookups' = lookups + 1
    /\ Raise("LookupError")
    /\ UNCHANGED <<config, layout, out_dir, idx, fs, dirs, reads>>

files == layout.result

InLoop == pc = "loop" /\ idx <= Len(files)

bidsfile == files[idx]

src == bidsfile.path

LastSuffix(p) ==
    LET sfx == Suffixes(p) IN IF Len(sfx) = 0 THEN "" ELSE sfx[Len(sfx)]

\* "".join(src.suffixes)
Ext(p) == Join(Suffixes(p), "")

\* config.get("caption"): the template, as the string it is
desc_text ==
    IF "caption" \in DOMAIN Items THEN Raw(Items["caption"]) ELSE NoneVal

\* `if desc_text`: a caption is configured and is not the empty string
HasTemplate == "caption" \in DOMAIN Items /\ Len(Items["caption"]) > 0

\* dict(bidsfile.entities)
entities == bidsfile.entities

\* desc_text.format(**entities) raises KeyError
FormatRaises == HasTemplate /\ ~CanFormat(Items["caption"], entities)

\* desc_text after lines 135-136
VectorCaption ==
    IF HasTemplate THEN Format(Items["caption"], entities) ELSE desc_text

AlwaysCopy(p) == TRUE

\* src.relative_to(out_dir) raises ValueError
NeedsCopy(p) == ~IsUnder(p, out_dir)

AnchorFromRoot(p) == RelativeTo(p, layout.root)

\* src.relative_to(Path(layout.root).parent)
CopyAnchor(p) == RelativeTo(p, Parent(layout.root))

\* SVG_SNIPPET[config.get("static", True)].format(html_anchor)
VectorContents(html_anchor) ==
    Format(SnippetFor(Get(Items, "static", TRUE)), "0" :> Posix(html_anchor))

\* src.read_text().strip()
FragmentContents == Join(Strip(fs[src]), "")

\* lines 163-164
AppendIf(contents, caption) ==
    components' = IF contents # "" THEN Append(components, <<contents, caption>>)
                  ELSE components

ProcessFragment ==
    /\ InLoop
    /\ Ext(src) = ".html"
    /\ reads' = reads \cup {src}
    /\ AppendIf(FragmentContents, desc_text)
    /\ idx' = idx + 1
    /\ UNCHANGED <<config, layout, out_dir, pc, err, title, subtitle, description,
                   name, fs, dirs, lookups>>

\* src.read_text() raises
FragmentReadFails ==
    /\ InLoop
    /\ Ext(src) = ".html"
    /\ Raise("OSError")
    /\ UNCHANGED <<config, layout, out_dir, title, subtitle, description, name,
                   components, idx, fs, dirs, reads, lookups>>

VectorTemplateError ==
    /\ InLoop
    /\ Ext(src) = ".svg"
    /\ FormatRaises
    /\ Raise("KeyError")
    /\ UNCHANGED <<config, layout, out_dir, title, subtitle, description, name,
                   components, idx, fs, dirs, reads, lookups>>

\* src is under out_dir: it is referenced where it is
ProcessVectorInPlace ==
    /\ InLoop
    /\ Ext(src) = ".svg"
    /\ ~FormatRaises
    /\ ~NeedsCopy(src)
    /\ AppendIf(VectorContents(RelativeTo(src, out_dir)), VectorCaption)
    /\ idx' = idx + 1
    /\ UNCHANGED <<config, layout, out_dir, pc, err, title, subtitle, description,
                   name, fs, dirs, reads, lookups>>

dst == out_dir \o CopyAnchor(src)

\* src is not under out_dir: it is copied to out_dir / html_anchor.  The
\* catalog's files are under its root, so the second relative_to succeeds.
ProcessVectorCopy ==
    /\ InLoop
    /\ Ext(src) = ".svg"
    /\ ~FormatRaises
    /\ NeedsCopy(src)
    /\ IsUnder(src, Parent(layout.root))
    /\ dirs' = dirs \cup Ancestors(Parent(dst))
    /\ fs' = (dst :> fs[src]) @@ fs
    /\ AppendIf(VectorContents(CopyAnchor(src)), VectorCaption)
    /\ idx' = idx + 1
    /\ UNCHANGED <<config, layout, out_dir, pc, err, title, subtitle, description,
                   name, reads, lookups>>

\* dst.parent.mkdir(parents=True, exist_ok=True) raises, after it has made
\* none, some or all but the last of the missing directories
VectorMkdirFails ==
    /\ InLoop
    /\ Ext(src) = ".svg"
    /\ ~FormatRaises
    /\ NeedsCopy(src)
    /\ IsUnder(src, Parent(layout.root))
    /\ Parent(dst) \notin dirs
    /\ \E n \in 0 .. (Len(Parent(dst)) - 1) :
          dirs' = dirs \cup Ancestors(SubSeq(dst, 1, n))
    /\ Raise("OSError")
    /\ UNCHANGED <<config, layout, out_dir, title, subtitle, description, name,
                   components, idx, fs, reads, lookups>>

\* copyfile raises: neither the hard link nor the copy could be made
VectorCopyFails ==
    /\ InLoop
    /\ Ext(src) = ".svg"
    /\ ~FormatRaises
    /\ NeedsCopy(src)
    /\ IsUnder(src, Parent(layout.root))
    /\ dirs' = dirs \cup Ancestors(Parent(dst))
    /\ Raise("OSError")
    /\ UNCHANGED <<config, layout, out_dir, title, subtitle, description, name,
                   components, idx, fs, reads, lookups>>

\* neither branch is taken: contents stays None
SkipUnsupported ==
    /\ InLoop
    /\ Ext(src) \notin {".html", ".svg"}
    /\ idx' = idx + 1
    /\ UNCHANGED <<config, layout, out_dir, pc, err, title, subtitle, description,
                   name, components, fs, dirs, reads, lookups>>

\* the for loop is exhausted and __init__ returns
Finish ==
    /\ pc = "loop"
    /\ idx > Len(files)
    /\ pc' = "done"
    /\ UNCHANGED <<config, layout, out_dir, err, title, subtitle, description,
                   name, components, idx, fs, dirs, reads, lookups>>

\* Reportlet.is_empty
is_empty == Len(components) = 0

Next ==
    \/ RaiseNoConfig
    \/ BeginNonBids
    \/ BeginBids
    \/ BeginBidsLookupFails
    \/ ProcessFragment
    \/ FragmentReadFails
    \/ VectorTemplateError
    \/ ProcessVectorInPlace
    \/ ProcessVectorCopy
    \/ VectorMkdirFails
    \/ VectorCopyFails
    \/ SkipUnsupported
    \/ Finish

Spec == Init /\ [][Next]_vars

-----------------------------------------------------------------------------
(* Vocabulary of the properties *)

\* the positions of files the loop has finished with
Processed == 1 .. (idx - 1)

FileName(e) == e.path[Len(e.path)]

\* the path ends in "." followed by x
EndsIn(e, x) == Len(FileName(e)) > 1 /\ FileName(e)[Len(FileName(e))] = x

\* everything after the first dot of the file name is x
WholeSuffixIs(e, x) == Len(FileName(e)) = 2 /\ FileName(e)[2] = x

NonBlank(t) == \E i \in DOMAIN t : t[i] \notin Whitespace

\* c is text t without its leading and trailing whitespace
IsTrimOf(c, t) ==
    \E a, b \in 0 .. Len(t) :
        /\ a <= b
        /\ \A i \in 1 .. a : t[i] \in Whitespace
        /\ \A i \in (b + 1) .. Len(t) : t[i] \in Whitespace
        /\ a < b => t[a + 1] \notin Whitespace /\ t[b] \notin Whitespace
        /\ c = Join(SubSeq(t, a + 1, b), "")

\* the entry yields content: a fragment with some text, or a vector image
Produces(e) ==
    \/ WholeSuffixIs(e, "html") /\ NonBlank(InitialFS[e.path])
    \/ WholeSuffixIs(e, "svg")

\* the first k matched entries that yield content, in catalog result order
Producers(k) == SelectSeq(SubSeq(files, 1, k), Produces)

\* where a vector image is embedded from
ExpectedAnchor(e) ==
    IF IsUnder(e.path, out_dir) THEN RelativeTo(e.path, out_dir)
    ELSE RelativeTo(e.path, Parent(Root))

Static == Get(Items, "static", TRUE)

ImageSnippet(a) == Format(SVG_SNIPPET[2], "0" :> Posix(a))

ObjectSnippet(a) == Format(SVG_SNIPPET[1], "0" :> Posix(a))

ExpectedSnippet(e) ==
    IF Static THEN ImageSnippet(ExpectedAnchor(e)) ELSE ObjectSnippet(ExpectedAnchor(e))

HasContent(c) == \E j \in DOMAIN components : components[j][1] = c

QueryKeys == { bidsquery[i][1] : i \in DOMAIN bidsquery }

QueryValueOf(k) == (CHOOSE i \in DOMAIN bidsquery : bidsquery[i][1] = k)

\* the name of a query, from its set of criteria alone
CanonicalName ==
    LET ks == SelectSeq(KeyOrder, LAMBDA k : k \in QueryKeys)
    IN  Join([i \in DOMAIN ks |->
                ks[i] \o "-" \o bidsquery[QueryValueOf(ks[i])][2]], "_")

NoQuery == "bids" \notin DOMAIN Items \/ Len(Items["bids"]) = 0

Constructed == pc = "done"

-----------------------------------------------------------------------------
(* C1: with a caption template, every component's caption is the template  *)
(* with the metadata of the entry it comes from substituted, for fragments *)
(* and vector images alike; without a template the caption is None.        *)
C1_CaptionSubstituted ==
    \A j \in DOMAIN components :
        j <= Len(Producers(idx - 1)) =>
            LET e == Producers(idx - 1)[j]
            IN  IF "caption" \in DOMAIN Items
                THEN CanFormat(Items["caption"], e.entities)
                        => components[j][2] = Format(Items["caption"], e.entities)
                ELSE components[j][2] = NoneVal

(* C2: a construction never completes when the caption template names a    *)
(* field that a matched entry of a supported kind (.html or .svg) lacks.   *)
C2_MissingFieldIsFatal ==
    Constructed =>
        \A i \in Processed :
            ("caption" \in DOMAIN Items
                /\ (WholeSuffixIs(files[i], "html") \/ WholeSuffixIs(files[i], "svg")))
            => CanFormat(Items["caption"], files[i].entities)

(* C3: for a spec that carries a query and no explicit name, the name is   *)
(* the "key-value" pairs of the query in key order joined by "_": it       *)
(* depends on the set of criteria only, not on the order of submission,    *)
(* and it is assigned whatever the catalog returns, zero entries included. *)
C3_DerivedName ==
    (pc # "start" /\ ~config.isNone /\ ~NoQuery /\ "name" \notin DOMAIN Items)
        => name = CanonicalName

\* a query submitted against key order, no match: the name is the sorted one
C3_Witness ==
    /\ Constructed
    /\ Len(files) = 0
    /\ "name" \notin DOMAIN Items
    /\ bidsquery = << <<"desc", "reconall">>, <<"datatype", "figures">> >>
    /\ name = "datatype-figures_desc-reconall"

(* C4: every constructed Reportlet has a name, a title, a subtitle, a      *)
(* description and components; the name is the explicit one when given and *)
(* the one derived from the query otherwise, with or without a query.      *)
C4_NameAlwaysSet ==
    Constructed =>
        /\ title # Unset /\ subtitle # Unset /\ description # Unset
        /\ name # Unset
        /\ name = IF "name" \in DOMAIN Items THEN Items["name"] ELSE CanonicalName

(* C5, as stated: the configuration error is raised only when no config    *)
(* object is supplied, and every supplied spec without query criteria      *)
(* constructs without error, looks nothing up and has no component.        *)
C5_Original ==
    /\ err = "RuntimeError" => config.isNone
    /\ (pc # "start" /\ ~config.isNone /\ NoQuery)
          => Constructed /\ err = NoneVal /\ lookups = 0 /\ is_empty

(* C5, amended: the configuration error is raised exactly when the config  *)
(* is absent or is the empty mapping; every non-empty spec without query   *)
(* criteria constructs without error, looks nothing up and has no          *)
(* component.                                                              *)
C5_Amended ==
    /\ err = "RuntimeError" <=>
          (pc # "start" /\ (config.isNone \/ DOMAIN Items = {}))
    /\ (pc # "start" /\ ~config.isNone /\ DOMAIN Items # {} /\ NoQuery)
          => /\ Constructed /\ err = NoneVal
             /\ lookups = 0 /\ is_empty

\* a spec that sets only a caption and an empty query
C5_Witness ==
    /\ Constructed
    /\ DOMAIN Items = {"caption", "bids"}
    /\ Len(Items["bids"]) = 0
    /\ is_empty
    /\ lookups = 0

-----------------------------------------------------------------------------
(* What one pass of the loop over entry e does to the component list *)

TrimmedText(e) == Join(Strip(InitialFS[e.path]), "")

\* the entry was finished with, without an exception
Passed == InLoop /\ idx' = idx + 1 /\ pc' = "loop" /\ err' = err

AppendsOne(c) ==
    /\ Len(components') = Len(components) + 1
    /\ SubSeq(components', 1, Len(components)) = components
    /\ components'[Len(components')][1] = c

AppendsNothing == components' = components

TreatedAsFragment(e) ==
    IF TrimmedText(e) = "" THEN AppendsNothing ELSE AppendsOne(TrimmedText(e))

TreatedAsVector(e) == AppendsOne(ExpectedSnippet(e))

\* skipped silently: no exception, nothing appended, on to the next entry
Skipped == Passed /\ AppendsNothing

(* C6, as stated: an entry whose path ends in .html is a fragment and one  *)
(* whose path ends in .svg a vector image, file names with several         *)
(* suffixes included; an entry with another ending is skipped silently.    *)
C6_Original ==
    [][InLoop =>
        /\ (Passed /\ EndsIn(bidsfile, "html")) => TreatedAsFragment(bidsfile)
        /\ (Passed /\ EndsIn(bidsfile, "svg")) => TreatedAsVector(bidsfile)
        /\ (~EndsIn(bidsfile, "html") /\ ~EndsIn(bidsfile, "svg")) => Skipped
      ]_vars

(* C6, amended: an entry is a fragment when the whole suffix of its file   *)
(* name (everything from the first dot) is .html and a vector image when   *)
(* it is .svg; every other entry, among them a file name with several      *)
(* suffixes that ends in .html or .svg, is skipped silently: no exception, *)
(* nothing appended, and the loop goes on to the next entry.               *)
C6_Amended ==
    [][InLoop =>
        /\ (Passed /\ WholeSuffixIs(bidsfile, "html")) => TreatedAsFragment(bidsfile)
        /\ (Passed /\ WholeSuffixIs(bidsfile, "svg")) => TreatedAsVector(bidsfile)
        /\ (~WholeSuffixIs(bidsfile, "html") /\ ~WholeSuffixIs(bidsfile, "svg"))
              => Skipped
      ]_vars

\* summary.en.html was skipped and the vector image after it was embedded
C6_Witness ==
    /\ Constructed
    /\ Len(files) = 2
    /\ FileName(files[1]) = <<"summary", "en", "html">>
    /\ WholeSuffixIs(files[2], "svg")
    /\ Len(components) = 1
    /\ components[1][1] = ExpectedSnippet(files[2])

(* C7: a vector image under the output directory is embedded by its path   *)
(* relative to the output directory; one outside it is, once processed,    *)
(* a file at out_dir / (its path relative to the parent of the catalog     *)
(* root) and is embedded by that relative path.  The snippet is the image  *)
(* tag when static (the default) and the object tag otherwise, the two     *)
(* differ, and both reference the same path.                               *)
C7_PathReconciliation ==
    \A i \in Processed :
        WholeSuffixIs(files[i], "svg") =>
            LET e == files[i]
                a == ExpectedAnchor(e)
            IN  /\ HasContent(IF Static THEN ImageSnippet(a) ELSE ObjectSnippet(a))
                /\ ~HasContent(IF Static THEN ObjectSnippet(a) ELSE ImageSnippet(a))
                /\ ImageSnippet(a) # ObjectSnippet(a)
                /\ ~IsUnder(e.path, out_dir) =>
                      /\ a = RelativeTo(e.path, Parent(Root))
                      /\ (out_dir \o a) \in DOMAIN fs
                      /\ fs[out_dir \o a] = InitialFS[e.path]

\* a dynamic reportlet whose image was copied into the output tree
C7_Witness ==
    /\ Constructed
    /\ ~Static
    /\ \E i \in Processed :
          /\ WholeSuffixIs(files[i], "svg")
          /\ ~IsUnder(files[i].path, out_dir)
          /\ HasContent(ObjectSnippet(RelativeTo(files[i].path, Parent(Root))))
          /\ (out_dir \o RelativeTo(files[i].path, Parent(Root))) \in DOMAIN fs

\* the vector images outside the output directory among the given positions
CopiedFrom(I) ==
    { i \in I : WholeSuffixIs(files[i], "svg") /\ ~IsUnder(files[i].path, out_dir) }

\* the positions processed, and the one an exception stopped at
Attempted ==
    Processed \cup (IF pc = "raised" /\ idx \in DOMAIN files THEN {idx} ELSE {})

Destination(i) == out_dir \o RelativeTo(files[i].path, Parent(Root))

(* C8: the only writes of a construction are the directories and the copy  *)
(* at out_dir / anchor for vector images that are not under the output     *)
(* directory: every file the catalog started with keeps its text, every    *)
(* new file is such a copy and every new directory is above one.  No match,*)
(* a fragment, an unsupported entry and a vector image under the output    *)
(* directory write nothing.                                                *)
C8_WritesOnlyCopies ==
    /\ \A p \in DOMAIN InitialFS : p \in DOMAIN fs /\ fs[p] = InitialFS[p]
    /\ \A p \in (DOMAIN fs) \ (DOMAIN InitialFS) :
          \E i \in CopiedFrom(Processed) : p = Destination(i)
    /\ \A d \in dirs \ InitialDirs :
          \E i \in CopiedFrom(Attempted) :
              d \in Ancestors(Parent(Destination(i)))

\* a fragment and a copied vector image: exactly one file was written
C8_Witness ==
    /\ Constructed
    /\ Len(files) = 2
    /\ WholeSuffixIs(files[1], "html")
    /\ CopiedFrom(Processed) = {2}
    /\ (DOMAIN fs) \ (DOMAIN InitialFS) = {Destination(2)}

(* C9: at every step of the build the components are, in catalog result    *)
(* order, one pair for each processed entry that yielded content and       *)
(* nothing else; a fragment's content is its file's text without the       *)
(* surrounding whitespace; is_empty() holds exactly when no entry yielded  *)
(* content.                                                                *)
C9_ComponentsInOrder ==
    LET prod == Producers(idx - 1)
    IN  /\ Len(components) = Len(prod)
        /\ \A j \in DOMAIN components :
              j <= Len(prod) =>
                  IF WholeSuffixIs(prod[j], "html")
                  THEN /\ components[j][1] # ""
                       /\ IsTrimOf(components[j][1], InitialFS[prod[j].path])
                  ELSE components[j][1] \in
                          { ImageSnippet(ExpectedAnchor(prod[j])),
                            ObjectSnippet(ExpectedAnchor(prod[j])) }
        /\ is_empty <=> Len(prod) = 0

\* two fragments, in the order the catalog returned them
C9_Witness ==
    /\ Constructed
    /\ Len(files) = 2
    /\ FileName(files[1]) = <<"space-A_T1w", "html">>
    /\ FileName(files[2]) = <<"summary", "html">>
    /\ components[1][1] = "a b"
    /\ components[2][1] = "<p>"
    /\ ~is_empty

\* the state a fatal condition on entry idx leaves behind
C10_AbortState ==
    (pc = "raised" /\ err \in {"OSError", "KeyError"}) =>
        /\ idx \in DOMAIN files
        /\ Len(components) = Len(Producers(idx - 1))
        /\ \A i \in CopiedFrom(Processed) :
              /\ Destination(i) \in DOMAIN fs
              /\ fs[Destination(i)] = InitialFS[files[i].path]
        /\ \A i \in (idx + 1) .. Len(files) :
              /\ files[i].path \notin reads
              /\ i \in CopiedFrom({i}) => Destination(i) \notin DOMAIN fs
              /\ ~HasContent(TrimmedText(files[i]))
              /\ ~HasContent(ExpectedSnippet(files[i]))

(* C10: a fatal condition on the k-th entry ends the construction: the     *)
(* exception leaves in a single attempt and no step follows it, no later   *)
(* entry has been read, copied or appended, and the copies made for the    *)
(* entries before k are still in place.                                    *)
C10_AbortWithoutRollback == []C10_AbortState /\ [][err = NoneVal]_vars

\* the copy of the second of three entries fails after the first was copied;
\* the fragment after it is never read
C10_Witness ==
    /\ pc = "raised" /\ err = "OSError"
    /\ Len(files) = 3
    /\ idx = 2
    /\ CopiedFrom(DOMAIN files) = {1, 2}
    /\ Destination(1) \in DOMAIN fs
    /\ Destination(2) \notin DOMAIN fs
    /\ WholeSuffixIs(files[3], "html")
    /\ files[3].path \notin reads
    /\ Len(components) = 1

====
